---- MODULE Spec2Model ----
(***************************************************************************)
(* timetable2json (main.py): a top-level script that parses its command    *)
(* line, reads one HTML file, selects one table with a positional CSS      *)
(* selector and walks the rows and cells of the table's body.              *)
(*                                                                         *)
(* The script is modelled statement by statement.  The parsed document is  *)
(* a tree of nodes [tag, attrs, kids, text]; a node reference returned by  *)
(* the selector carries the node's path in the tree.  The command line,    *)
(* the state of the input file and the file's content are the inputs.      *)
(***************************************************************************)
EXTENDS Integers, Sequences, FiniteSets, TLC

VARIABLES argv, pc, exitStatus, out, error, args, file, opens, markup, soup,
          mon, tbody, rows, ri, row_data, ci, data, fi, fields, records

vars == <<argv, pc, exitStatus, out, error, args, file, opens, markup, soup,
          mon, tbody, rows, ri, row_data, ci, data, fi, fields, records>>

----------------------------------------------------------------------------
(* Bounds of the model and constants of the program                        *)

MaxArgs == 3

MaxChildren == 4

MaxRows == 2

\* body > table:nth-child(3)
NthChild == 3

\* data[0] .. data[10]
NumFields == 11

FirstFieldLine == 27

FieldNames == <<"activity", "module_title", "session_title", "type", "weeks",
                "day", "start", "end", "staff", "location", "notes">>

----------------------------------------------------------------------------
(* Document trees                                                          *)

N(tag, attrs, kids) == [tag |-> tag, attrs |-> attrs, kids |-> kids, text |-> <<>>]

None == [tag |-> "None", attrs |-> {}, kids |-> <<>>, text |-> <<>>]

NoneRef == [path |-> <<>>, node |-> None]

Txt == [tag |-> "#text", attrs |-> {}, kids |-> <<>>, text |-> <<"nl">>]

\* the td in column c (0-based) of row r; the cells of column 0 carry a class
Cell(r, c) == [tag |-> "td",
               attrs |-> IF c = 0 THEN {<<"class", "act">>} ELSE {},
               kids |-> <<>>,
               text |-> <<r, c>>]

Th(c) == [tag |-> "th", attrs |-> {}, kids |-> <<>>, text |-> <<0, c>>]

Row(r, k) == N("tr", {}, [c \in 1..k |-> Cell(r, c - 1)])

HeadRow == N("tr", {}, <<Th(0), Th(1)>>)

\* the cell counts a row of the input may have
CellCounts == {0, 1, NumFields - 1, NumFields, NumFields + 1}

RECURSIVE CountSeqs(_)
CountSeqs(n) ==
    IF n = 0 THEN {<<>>}
    ELSE LET shorter == CountSeqs(n - 1)
         IN shorter \cup {Append(s, k) : s \in {t \in shorter : Len(t) = n - 1},
                                         k \in CellCounts}

RowsOf(counts) == [r \in 1..Len(counts) |-> Row(r, counts[r])]

TBody(rws) == N("tbody", {}, rws)

Table(id, kids) == N("table", IF id = "" THEN {} ELSE {<<"id", id>>}, kids)

\* a table with an id whose body holds one full row
TblA == Table("mon", <<TBody(<<Row(1, NumFields)>>)>>)

\* a table without attributes and without a body section; its row is a direct child
TblB == Table("", <<Row(1, NumFields)>>)

Div == N("div", {}, <<>>)

\* a table that is the third element child of a div
DivTbl == N("div", {}, <<N("p", {}, <<>>), N("p", {}, <<>>), TblA>>)

ShapeElems == {Div, DivTbl, TblA, TblB}

RECURSIVE ChildSeqs(_)
ChildSeqs(n) ==
    IF n = 0 THEN {<<>>}
    ELSE LET shorter == ChildSeqs(n - 1)
         IN shorter \cup {Append(s, e) : s \in {t \in shorter : Len(t) = n - 1},
                                         e \in ShapeElems}

\* the tables whose content varies: bodies of up to MaxRows rows, with or
\* without a header row of th cells in the body, and a head section before it
ContentTables ==
    {Table("t", <<TBody(RowsOf(cs))>>) : cs \in CountSeqs(MaxRows)}
    \cup {Table("t", <<TBody(<<HeadRow>> \o RowsOf(cs))>>) : cs \in CountSeqs(1)}
    \cup {Table("t", <<N("thead", {}, <<HeadRow>>), TBody(RowsOf(cs))>>) : cs \in CountSeqs(1)}
    \cup {Table("t", <<>>)}

Document(kids) == N("[document]", {}, kids)

WithBody(children) == Document(<<N("html", {}, <<N("body", {}, children)>>)>>)

Docs ==
    {WithBody(c) : c \in ChildSeqs(MaxChildren)}
    \cup {WithBody(<<Div, TblB, t>>) : t \in ContentTables}
    \cup {WithBody(<<Txt, Div, Txt, TblB, Txt, t>>) : t \in ContentTables}
    \cup {WithBody(<<Div, Txt, TblA, TblB>>), WithBody(<<Txt, TblB, Txt, TblB, TblA, TblB>>)}
    \cup {Document(<<Div, Div, TblA>>), Document(<<N("html", {}, <<Div, Div, TblA>>)>>)}

\* what open()/read() can deliver besides a document: bytes that do not decode,
\* and markup html.parser rejects (such as "<![foo bar]>")
Undecodable == N("[undecodable]", {}, <<>>)

RejectedMarkup == N("[rejected]", {}, <<>>)

Contents == Docs \cup {Undecodable, RejectedMarkup}

----------------------------------------------------------------------------
(* The library calls the script makes                                      *)

\* argparse: the option strings of the parser (add_help is on by default)
HelpOptions == {"-h", "--help"}

Paths == {"a.html", "b.json"}

Tokens == Paths \cup {"-h"}

RECURSIVE ArgSeqs(_)
ArgSeqs(n) ==
    IF n = 0 THEN {<<>>}
    ELSE LET shorter == ArgSeqs(n - 1)
         IN shorter \cup {Append(s, t) : s \in {u \in shorter : Len(u) = n - 1},
                                         t \in Tokens}

IsHelp(tok) == tok \in HelpOptions

IsPositional(tok) == tok \notin HelpOptions

NoArgs == [input |-> "", output |-> ""]

\* variant: the second positional declared optional (nargs="?")
parse_args_optional_output(av) ==
    LET pos == SelectSeq(av, IsPositional)
    IN IF SelectSeq(av, IsHelp) # <<>>
       THEN [ok |-> FALSE, status |-> 0, out |-> "help", args |-> NoArgs]
       ELSE IF Len(pos) \notin {1, 2}
       THEN [ok |-> FALSE, status |-> 2, out |-> "usage", args |-> NoArgs]
       ELSE [ok |-> TRUE, status |-> 0, out |-> "",
             args |-> [input |-> pos[1],
                       output |-> IF Len(pos) = 2 THEN pos[2] ELSE ""]]

\* parser.parse_args(): the help action exits with status 0 as soon as it is
\* met; otherwise two positionals are required and no argument may be left
\* over, else the parser prints the usage and exits with status 2
parse_args(av) ==
    LET pos == SelectSeq(av, IsPositional)
    IN IF SelectSeq(av, IsHelp) # <<>>
       THEN [ok |-> FALSE, status |-> 0, out |-> "help", args |-> NoArgs]
       ELSE IF Len(pos) # 2
       THEN [ok |-> FALSE, status |-> 2, out |-> "usage", args |-> NoArgs]
       ELSE [ok |-> TRUE, status |-> 0, out |-> "",
             args |-> [input |-> pos[1], output |-> pos[2]]]

\* variant: the script opens its second argument for writing
OpenCallOutput(a) == [path |-> a.output, mode |-> "w", arg |-> "output"]

\* the open() call of line 14: which argument it names, and the mode
OpenCall(a) == [path |-> a.input, mode |-> "r", arg |-> "input"]

\* the position of kids[i] among the element children of its parent
ElemIndex(kids, i) == Cardinality({j \in 1..i : kids[j].tag # "#text"})

\* the element descendants of node from child i on, in document order, each
\* with its path, its parent's tag and its siblings
RECURSIVE WalkKids(_, _, _)
WalkKids(node, path, i) ==
    IF i > Len(node.kids) THEN <<>>
    ELSE LET k == node.kids[i]
             here == IF k.tag = "#text" THEN <<>>
                     ELSE <<[path |-> Append(path, i), node |-> k,
                             parent |-> node.tag, siblings |-> node.kids,
                             i |-> i]>>
                          \o WalkKids(k, Append(path, i), 1)
         IN here \o WalkKids(node, path, i + 1)

Descendants(node) == WalkKids(node, <<>>, 1)

\* the position of kids[i] among the children of its parent with the same tag
TypeIndex(kids, i) == Cardinality({j \in 1..i : kids[j].tag = kids[i].tag})

\* variant: body > table:nth-of-type(3)
MatchesNthOfType(e) ==
    /\ e.node.tag = "table"
    /\ e.parent = "body"
    /\ TypeIndex(e.siblings, e.i) = NthChild

\* body > table:nth-child(3)
Matches(e) ==
    /\ e.node.tag = "table"
    /\ e.parent = "body"
    /\ ElemIndex(e.siblings, e.i) = NthChild

\* soup.select_one(selector): the first match in document order, or None
select_one(root) ==
    LET m == SelectSeq(Descendants(root), Matches)
    IN IF Len(m) = 0 THEN NoneRef ELSE [path |-> m[1].path, node |-> m[1].node]

\* tag.find_all(name): every descendant of that name, in document order
find_all(node, name) ==
    LET Named(e) == e.node.tag = name
        m == SelectSeq(Descendants(node), Named)
    IN [j \in 1..Len(m) |-> m[j].node]

\* variant: fall back to the node itself when it has no such descendant
find_or_self(node, name) ==
    LET m == find_all(node, name)
    IN IF Len(m) = 0 THEN node ELSE m[1]

\* tag.find(name): the first descendant of that name, or None
find(node, name) ==
    LET m == find_all(node, name)
    IN IF Len(m) = 0 THEN None ELSE m[1]

\* Tag.__getitem__(key) is self.attrs[key]; the keys of attrs are the
\* attribute names of the element, which are strings
IntKey(n) == [type |-> "int", v |-> n]

\* variant: an integer key indexes the text of the element
Tag__getitem__text(tag, key) ==
    IF key.type = "int"
    THEN [ok |-> TRUE, value |-> tag.text]
    ELSE [ok |-> FALSE, value |-> <<>>]

Tag__getitem__(tag, key) ==
    IF key.type = "str" /\ \E p \in tag.attrs : p[1] = key.v
    THEN [ok |-> TRUE, value |-> (CHOOSE p \in tag.attrs : p[1] = key.v)[2]]
    ELSE [ok |-> FALSE, value |-> <<>>]

----------------------------------------------------------------------------
(* The script                                                              *)

NoError == [kind |-> "", line |-> 0]

Unset == <<"unset">>

NoFields == [f \in {FieldNames[j] : j \in 1..NumFields} |-> Unset]

Init ==
    /\ argv \in ArgSeqs(MaxArgs)
    /\ pc = "parse_args"
    /\ exitStatus = -1
    /\ out = ""
    /\ error = NoError
    /\ args = NoArgs
    /\ file = "none"
    /\ opens = <<>>
    /\ markup = None
    /\ soup = None
    /\ mon = NoneRef
    /\ tbody = None
    /\ rows = <<>>
    /\ ri = 0
    /\ row_data = <<>>
    /\ ci = 0
    /\ data = None
    /\ fi = 0
    /\ fields = NoFields
    /\ records = <<>>

\* an uncaught exception: traceback on stderr, exit status 1
Raise(kind, line) ==
    /\ pc' = "end"
    /\ exitStatus' = 1
    /\ out' = "traceback"
    /\ error' = [kind |-> kind, line |-> line]

\* line 12
ParseArgs ==
    /\ pc = "parse_args"
    /\ LET r == parse_args(argv)
       IN /\ args' = r.args
          /\ out' = r.out
          /\ IF r.ok
             THEN pc' = "open" /\ UNCHANGED exitStatus
             ELSE pc' = "end" /\ exitStatus' = r.status
    /\ UNCHANGED <<argv, error, file, opens, markup, soup, mon, tbody, rows, ri,
                   row_data, ci, data, fi, fields, records>>

\* line 14: open(args.input, "r"); the file may not exist or not be readable
Open ==
    /\ pc = "open"
    /\ \E exists \in BOOLEAN :
          IF exists
          THEN /\ file' = "open"
               /\ opens' = Append(opens, OpenCall(args))
               /\ pc' = "read"
               /\ UNCHANGED <<exitStatus, out, error>>
          ELSE /\ Raise("FileNotFoundError", 14)
               /\ UNCHANGED <<file, opens>>
    /\ UNCHANGED <<argv, args, markup, soup, mon, tbody, rows, ri, row_data, ci,
                   data, fi, fields, records>>

\* line 15, the argument: file.read()
Read ==
    /\ pc = "read"
    /\ \E c \in Contents :
          IF c = Undecodable
          THEN Raise("UnicodeDecodeError", 15) /\ UNCHANGED markup
          ELSE /\ markup' = c
               /\ pc' = "construct"
               /\ UNCHANGED <<exitStatus, out, error>>
    /\ UNCHANGED <<argv, args, file, opens, soup, mon, tbody, rows, ri, row_data,
                   ci, data, fi, fields, records>>

\* line 15, the call: BeautifulSoup(markup, "html.parser")
Construct ==
    /\ pc = "construct"
    /\ IF markup = RejectedMarkup
       THEN Raise("ParserRejectedMarkup", 15) /\ UNCHANGED soup
       ELSE /\ soup' = markup
            /\ pc' = "close"
            /\ UNCHANGED <<exitStatus, out, error>>
    /\ UNCHANGED <<argv, args, file, opens, markup, mon, tbody, rows, ri,
                   row_data, ci, data, fi, fields, records>>

\* variant: line 16 left out
CloseForgotten ==
    /\ pc = "close"
    /\ pc' = "select"
    /\ UNCHANGED <<argv, exitStatus, out, error, args, file, opens, markup, soup,
                   mon, tbody, rows, ri, row_data, ci, data, fi, fields, records>>

\* line 16
Close ==
    /\ pc = "close"
    /\ file' = "closed"
    /\ pc' = "select"
    /\ UNCHANGED <<argv, exitStatus, out, error, args, opens, markup, soup, mon,
                   tbody, rows, ri, row_data, ci, data, fi, fields, records>>

\* line 18
Select ==
    /\ pc = "select"
    /\ mon' = select_one(soup)
    /\ pc' = "find_tbody"
    /\ UNCHANGED <<argv, exitStatus, out, error, args, file, opens, markup, soup,
                   tbody, rows, ri, row_data, ci, data, fi, fields, records>>

\* variant: a guard that ends the script quietly when no table was selected
FindTbodyGuarded ==
    /\ pc = "find_tbody"
    /\ IF mon.node = None
       THEN /\ pc' = "end"
            /\ exitStatus' = 0
            /\ UNCHANGED <<out, error, tbody>>
       ELSE /\ tbody' = find(mon.node, "tbody")
            /\ pc' = "find_rows"
            /\ UNCHANGED <<exitStatus, out, error>>
    /\ UNCHANGED <<argv, args, file, opens, markup, soup, mon, rows, ri,
                   row_data, ci, data, fi, fields, records>>

\* line 20: mon.find("tbody")
FindTbody ==
    /\ pc = "find_tbody"
    /\ IF mon.node = None
       THEN Raise("AttributeError", 20) /\ UNCHANGED tbody
       ELSE /\ tbody' = find(mon.node, "tbody")
            /\ pc' = "find_rows"
            /\ UNCHANGED <<exitStatus, out, error>>
    /\ UNCHANGED <<argv, args, file, opens, markup, soup, mon, rows, ri,
                   row_data, ci, data, fi, fields, records>>

\* line 23, the iterable: tbody.find_all("tr")
FindRows ==
    /\ pc = "find_rows"
    /\ IF tbody = None
       THEN Raise("AttributeError", 23) /\ UNCHANGED rows
       ELSE /\ rows' = find_all(tbody, "tr")
            /\ pc' = "for_row"
            /\ UNCHANGED <<exitStatus, out, error>>
    /\ UNCHANGED <<argv, args, file, opens, markup, soup, mon, tbody, ri,
                   row_data, ci, data, fi, fields, records>>

\* line 23, the loop: the next row, or the end of the script
ForRow ==
    /\ pc = "for_row"
    /\ IF ri = Len(rows)
       THEN /\ pc' = "end"
            /\ exitStatus' = 0
            /\ UNCHANGED ri
       ELSE /\ ri' = ri + 1
            /\ pc' = "find_td"
            /\ UNCHANGED exitStatus
    /\ UNCHANGED <<argv, out, error, args, file, opens, markup, soup, mon, tbody,
                   rows, row_data, ci, data, fi, fields, records>>

\* line 24: row.find_all("td")
FindTd ==
    /\ pc = "find_td"
    /\ row_data' = find_all(rows[ri], "td")
    /\ ci' = 0
    /\ pc' = "for_data"
    /\ UNCHANGED <<argv, exitStatus, out, error, args, file, opens, markup, soup,
                   mon, tbody, rows, ri, data, fi, fields, records>>

\* line 26: the next element of row_data, or back to the row loop
ForData ==
    /\ pc = "for_data"
    /\ IF ci = Len(row_data)
       THEN /\ pc' = "for_row"
            /\ UNCHANGED <<ci, data, fi>>
       ELSE /\ ci' = ci + 1
            /\ data' = row_data[ci + 1]
            /\ fi' = 0
            /\ pc' = "assign"
    /\ UNCHANGED <<argv, exitStatus, out, error, args, file, opens, markup, soup,
                   mon, tbody, rows, ri, row_data, fields, records>>

\* lines 27-37: <field fi> = data[fi]; after line 37 the eleven names hold one
\* session (records keeps the history of the values they held then)
Assign ==
    /\ pc = "assign"
    /\ LET r == Tag__getitem__(data, IntKey(fi))
       IN IF ~r.ok
          THEN Raise("KeyError", FirstFieldLine + fi)
               /\ UNCHANGED <<fi, fields, records>>
          ELSE LET f == [fields EXCEPT ![FieldNames[fi + 1]] = r.value]
               IN /\ fields' = f
                  /\ UNCHANGED <<exitStatus, out, error>>
                  /\ IF fi + 1 = NumFields
                     THEN /\ records' = Append(records, f)
                          /\ pc' = "for_data"
                          /\ UNCHANGED fi
                     ELSE /\ fi' = fi + 1
                          /\ UNCHANGED <<pc, records>>
    /\ UNCHANGED <<argv, args, file, opens, markup, soup, mon, tbody, rows, ri,
                   row_data, ci, data>>

Next ==
    \/ ParseArgs
    \/ Open
    \/ Read
    \/ Construct
    \/ Close
    \/ Select
    \/ FindTbody
    \/ FindRows
    \/ ForRow
    \/ FindTd
    \/ ForData
    \/ Assign

Spec == Init /\ [][Next]_vars

----------------------------------------------------------------------------
(* What the properties below speak about                                   *)

Succeeded == pc = "end" /\ exitStatus = 0 /\ error = NoError /\ out = ""

Failed == pc = "end" /\ exitStatus # 0 /\ error # NoError

FailedWith(kind, line) ==
    pc = "end" /\ exitStatus = 1 /\ error = [kind |-> kind, line |-> line]

\* line 18 has been executed
SelectRan ==
    \/ pc \in {"find_tbody", "find_rows", "for_row", "find_td", "for_data", "assign"}
    \/ pc = "end" /\ soup # None

\* lines 18 and 20 have been executed and both found their node
BodyFound == SelectRan /\ mon.node # None /\ tbody # None

ChildrenNamed(node, name) ==
    LET Named(k) == k.tag = name
    IN SelectSeq(node.kids, Named)

BodyRows == ChildrenNamed(tbody, "tr")

CellsOf(rw) == ChildrenNamed(rw, "td")

\* the rows of the selected body that hold at least one td
RowsWithCells == {r \in 1..Len(BodyRows) : Len(CellsOf(BodyRows[r])) > 0}

FirstRowWithCells == CHOOSE r \in RowsWithCells : \A q \in RowsWithCells : r <= q

\* the session a row of eleven cells stands for
SessionOf(rw) ==
    [f \in DOMAIN NoFields |->
        CellsOf(rw)[CHOOSE j \in 1..NumFields : FieldNames[j] = f]]

Positions(kids, Keep(_)) ==
    LET idx == [j \in 1..Len(kids) |-> j]
        Kept(j) == Keep(kids[j])
    IN SelectSeq(idx, Kept)

IsElement(k) == k.tag # "#text"

IsTable(k) == k.tag = "table"

IsBodyEntry(e) == e.node.tag = "body"

BodyEntries == SelectSeq(Descendants(soup), IsBodyEntry)

\* the third element child of body entry b, when that child is a table
ThirdChildIfTable(bs) ==
    IF Len(bs) = 0 THEN NoneRef
    ELSE LET b == bs[1]
             el == Positions(b.node.kids, IsElement)
         IN IF Len(el) >= NthChild /\ b.node.kids[el[NthChild]].tag = "table"
            THEN [path |-> Append(b.path, el[NthChild]),
                  node |-> b.node.kids[el[NthChild]]]
            ELSE NoneRef

\* the third of the tables among the children of body entry b
ThirdTableChild(bs) ==
    IF Len(bs) = 0 THEN NoneRef
    ELSE LET b == bs[1]
             tb == Positions(b.node.kids, IsTable)
         IN IF Len(tb) >= NthChild
            THEN [path |-> Append(b.path, tb[NthChild]),
                  node |-> b.node.kids[tb[NthChild]]]
            ELSE NoneRef

MissingPositional == Len(SelectSeq(argv, IsPositional)) < 2

HelpAsked == \E j \in 1..Len(argv) : argv[j] \in HelpOptions

NothingRead ==
    /\ file = "none" /\ opens = <<>> /\ markup = None /\ soup = None
    /\ mon = NoneRef /\ tbody = None /\ rows = <<>> /\ ri = 0 /\ ci = 0
    /\ fields = NoFields /\ records = <<>>

----------------------------------------------------------------------------
(* Properties                                                              *)

\* C1: when the selected table has a body of N rows of exactly eleven cells
\* each, the run ends without failure having produced N sessions, session i
\* holding cells 0..10 of row i in the order of the field names.
C1_RowsBecomeRecords ==
    (/\ pc = "end"
     /\ BodyFound
     /\ \A r \in 1..Len(BodyRows) : Len(CellsOf(BodyRows[r])) = NumFields)
    => /\ Succeeded
       /\ Len(records) = Len(BodyRows)
       /\ \A r \in 1..Len(BodyRows) : records[r] = SessionOf(BodyRows[r])

\* C2: when the selected body holds a row of fewer than eleven cells, the
\* run ends in an index-out-of-range failure at a field access; it never
\* ends having skipped the row or kept a partial session.
C2_ShortRowFails ==
    (/\ pc = "end"
     /\ BodyFound
     /\ \E r \in 1..Len(BodyRows) : Len(CellsOf(BodyRows[r])) < NumFields)
    => /\ Failed
       /\ error.kind = "IndexError"
       /\ error.line \in FirstFieldLine..(FirstFieldLine + NumFields - 1)

\* C3: when the selector matches no table, the run ends in an attribute
\* access failure at line 20, before any row is examined; it never ends
\* successfully.
C3_NoTableFails ==
    (SelectRan /\ mon.node = None)
    => \/ pc = "find_tbody"
       \/ /\ FailedWith("AttributeError", 20)
          /\ tbody = None /\ rows = <<>> /\ ri = 0 /\ ci = 0 /\ records = <<>>

C3_Witness ==
    /\ FailedWith("AttributeError", 20)
    /\ mon.node = None
    /\ Len(find_all(soup, "table")) > 0

C5_Original ==
    (MissingPositional /\ pc # "parse_args")
    => /\ pc = "end" /\ exitStatus # 0 /\ out = "usage"
       /\ NothingRead

\* C5 as amended: when a required positional is missing, the program exits
\* at argument parsing and nothing is opened, selected or processed; the
\* exit is non-zero (2) with the usage message unless a help option is among
\* the arguments, in which case it is 0 with the help text.
C5_MissingArgumentExits ==
    (MissingPositional /\ pc # "parse_args")
    => /\ pc = "end" /\ error = NoError
       /\ NothingRead
       /\ IF HelpAsked
          THEN exitStatus = 0 /\ out = "help"
          ELSE exitStatus = 2 /\ out = "usage"

C5_Witness ==
    /\ pc = "end" /\ exitStatus = 2 /\ out = "usage"
    /\ Len(argv) = 1
    /\ NothingRead

\* C6 as stated: the handle is opened once; once line 18 is reached the
\* handle is closed and stays closed; and a run ends with the handle open
\* only when the read itself raised.
C6_Original ==
    /\ Len(opens) <= 1
    /\ file # "none" <=> Len(opens) = 1
    /\ SelectRan \/ pc = "select" => file = "closed"
    /\ (pc = "end" /\ file = "open")
       => (error = [kind |-> "UnicodeDecodeError", line |-> 15] /\ markup = None)

\* C6 as amended: the handle is opened once; once line 18 is reached the
\* handle is closed and stays closed; and a run ends with the handle open
\* exactly when line 15 raised, in the read or in the construction of the
\* document from what was read.
C6_HandleClosedBeforeSelect ==
    /\ Len(opens) <= 1
    /\ file # "none" <=> Len(opens) = 1
    /\ SelectRan \/ pc = "select" => file = "closed"
    /\ (pc = "end" /\ file = "open")
       <=> (pc = "end" /\ error.line = 15
            /\ error.kind \in {"UnicodeDecodeError", "ParserRejectedMarkup"})
    /\ error.kind = "UnicodeDecodeError" => markup = None
    /\ error.kind = "ParserRejectedMarkup" => markup = RejectedMarkup

C6_Witness ==
    /\ pc = "end" /\ file = "open" /\ Len(opens) = 1
    /\ error = [kind |-> "ParserRejectedMarkup", line |-> 15]

\* C7: when the selected table has no tbody anywhere inside it, the run ends
\* in an attribute access failure at line 23, no row examined, even when the
\* table holds rows of eleven cells as direct children.
C7_NoBodyFails ==
    (/\ SelectRan
     /\ mon.node # None
     /\ LET inside == Descendants(mon.node)
        IN \A j \in 1..Len(inside) : inside[j].node.tag # "tbody")
    => \/ pc \in {"find_tbody", "find_rows"}
       \/ /\ FailedWith("AttributeError", 23)
          /\ tbody = None /\ rows = <<>> /\ ri = 0 /\ ci = 0 /\ records = <<>>

C7_Witness ==
    /\ FailedWith("AttributeError", 23)
    /\ mon.node # None
    /\ \E j \in 1..Len(mon.node.kids) :
          /\ mon.node.kids[j].tag = "tr"
          /\ Len(CellsOf(mon.node.kids[j])) = NumFields

\* C8: in the inner loop data is the list of the row's cells: for a row of k
\* cells the body runs k times and each time the eleven fields are positions
\* 0..10 of that list.
C8_DataIsRowList ==
    (pc = "end" /\ ri >= 1 /\ Len(row_data) >= NumFields)
    => /\ ci = Len(row_data)
       /\ Len(records) >= Len(row_data)
       /\ \A j \in 1..NumFields : fields[FieldNames[j]] = row_data[j]

\* C9 as stated: the selected node is the third of the tables among the
\* children of the body, whatever its attributes and whatever the other
\* children are.
C9_Original == SelectRan => mon = ThirdTableChild(BodyEntries)

\* C9 as amended: the selected node is the third element child of the body,
\* provided that child is a table, whatever its attributes; the elements
\* before it count whatever they are, text between them does not; a table
\* elsewhere is never selected.
C9_ThirdElementChild ==
    SelectRan
    => LET bs == BodyEntries
       IN /\ mon = ThirdChildIfTable(bs)
          /\ mon.node # None
             => /\ mon.node.tag = "table"
                /\ Len(bs) > 0
                /\ SubSeq(mon.path, 1, Len(mon.path) - 1) = bs[1].path

C9_Witness ==
    /\ SelectRan
    /\ mon.node # None
    /\ LET bs == BodyEntries
       IN /\ ThirdTableChild(bs).node # None
          /\ mon # ThirdTableChild(bs)
          /\ \E j \in 1..(mon.path[Len(mon.path)] - 1) :
                bs[1].node.kids[j].tag = "div"

\* C10: with a table selected and its body found, the run ends without
\* failure exactly when no row of the body holds a td; otherwise it fails at
\* line 27 on the first cell of the first row that holds one, no later cell
\* or row examined and no field assigned.
C10_FailsOnFirstCell ==
    (pc = "end" /\ BodyFound)
    => /\ Succeeded <=> RowsWithCells = {}
       /\ RowsWithCells = {} => ri = Len(BodyRows) /\ records = <<>>
       /\ RowsWithCells # {}
          => /\ FailedWith("KeyError", FirstFieldLine)
             /\ ri = FirstRowWithCells
             /\ ci = 1
             /\ data = CellsOf(BodyRows[FirstRowWithCells])[1]
             /\ fi = 0
             /\ fields = NoFields
             /\ records = <<>>

C10_Witness ==
    /\ FailedWith("KeyError", FirstFieldLine)
    /\ BodyFound
    /\ ri = 2
    /\ Len(BodyRows) > 2 \/ Len(CellsOf(BodyRows[2])) > 1

====
